---- MODULE Spec2Model ----
(***************************************************************************)
(* Model of src/monitoring/prometheus_metrics.py (the metric helpers       *)
(* track_user_feedback, update_last_inference, track_prediction and        *)
(* track_inference_time, called by concurrently served requests) and of    *)
(* tests/test_feedback_integration.py (the integration probe script).      *)
(*                                                                         *)
(* Floats are exact rationals [num, den] in lowest terms, so that the      *)
(* ms -> s division and the s -> ms multiplication are computed and not    *)
(* assumed away.  A request handler is a thread; the module-level globals  *)
(* and the metric objects are shared by all threads.  A call on a metric   *)
(* object (inc, observe, set) may raise: the step then takes the           *)
(* exception path the code has at that line.                               *)
(***************************************************************************)
EXTENDS Integers, Sequences, FiniteSets, TLC

\* ------------------------------------------------------------------ bounds
MaxCalls == 2
MaxOldRows == 2

\* ------------------------------------------------------- program constants
ALERT_THRESHOLD_MS == 1000
MS_PER_SECOND == 1000

\* Two request-handler threads.
Threads == {"t1", "t2"}

\* --------------------------------------------------------------- rationals
RECURSIVE GCD(_, _)
GCD(a, b) == IF b = 0 THEN a ELSE GCD(b, a % b)

Norm(n, d) == LET g == GCD(n, d) IN [num |-> n \div g, den |-> d \div g]

Zero == [num |-> 0, den |-> 1]

RAdd(a, b) == Norm(a.num * b.den + b.num * a.den, a.den * b.den)

RMulInt(a, k) == Norm(a.num * k, a.den)

RDivInt(a, k) == Norm(a.num, a.den * k)

RGtInt(a, k) == a.num > k * a.den

\* inference_time_ms / 1000.0
Seconds(ms) == Norm(ms, MS_PER_SECOND)

\* ------------------------------------------------------------------ inputs
Results == {"cat", "dog", "error"}

\* PredictionOutcome values handed to track_prediction.
Outcome(result, ms, confidence, success) ==
    [result |-> result, ms |-> ms, confidence |-> confidence, success |-> success]

PredictionOutcomes ==
    {Outcome("cat", 250, Norm(95, 100), TRUE),
     Outcome("dog", 1500, Norm(3, 5), TRUE),
     Outcome("error", 1500, Zero, FALSE)}

\* Durations (seconds) handed to update_last_inference and, by direct
\* callers, to track_inference_time.
DurationsSeconds == {Norm(1, 4), Norm(1, 1), Norm(3, 2)}

DirectDurations == {Norm(1, 4), Norm(3, 2)}

FeedbackTypes == {"positive", "negative", "neutral"}

SinkOutcomes == {"returns", "raises", "hangs"}

\* str(success).lower()
SuccessLabel(success) == IF success THEN "true" ELSE "false"

VARIABLES
    alert_high_latency,         \* the imported sink, or None (FALSE): l. 29-35
    predictions_total,          \* Counter by (result, success): l. 62-66
    inference_duration,         \* Histogram, its count and sum: l. 81-85
    prediction_confidence,      \* Histogram by result: l. 101-106
    cv_user_feedback_total,     \* Counter by feedback_type: l. 114-118
    cv_last_inference_seconds,  \* Gauge: l. 138-141
    cv_avg_inference_seconds,   \* Gauge: l. 144-147
    cv_inferencetime_ms,        \* Gauge: l. 150-153
    inference_sum,              \* the global _inference_sum: l. 297
    inference_count,            \* the global _inference_count: l. 298
    th,                         \* per thread: position, arguments, locals,
                                \* whether an exception left the helper, and
                                \* the log of what the current call did
    calls,                      \* history: number of calls started
    issued,                     \* history: entries into track_inference_time
                                \* and track_prediction, and their durations
    faults,                     \* history: some metric call has raised
    probe                       \* the probe script: position, what it was
                                \* answered, its exit status

metricVars == <<predictions_total, inference_duration, prediction_confidence,
                cv_user_feedback_total, cv_last_inference_seconds,
                cv_avg_inference_seconds, cv_inferencetime_ms,
                inference_sum, inference_count>>

vars == <<alert_high_latency, predictions_total, inference_duration,
          prediction_confidence, cv_user_feedback_total,
          cv_last_inference_seconds, cv_avg_inference_seconds,
          cv_inferencetime_ms, inference_sum, inference_count,
          th, calls, issued, faults, probe>>

\* ------------------------------------------------------------ metric types
EmptyHistogram == [count |-> 0, sum |-> Zero]

Observe(h, v) == [count |-> h.count + 1, sum |-> RAdd(h.sum, v)]

\* ------------------------------------------------------------------ thread
IdleThread ==
    [pc |-> "idle", op |-> "none", result |-> "none", ms |-> 0,
     confidence |-> Zero, success |-> TRUE, duration |-> Zero,
     feedback_type |-> "none", tmp |-> Zero, avg |-> Zero,
     raised |-> FALSE, log |-> <<>>]

Event(m, label, v) == [m |-> m, label |-> label, v |-> v]

Logged(t, e) == Append(th[t].log, e)

CanCall(t) == th[t].pc \in {"idle", "done"} /\ calls < MaxCalls

\* Python's None, for the probe's feedback_id.
None == -1

ProbeIdle ==
    [pc |-> "start", health_ok |-> FALSE, health_code |-> 0,
     health_status |-> "none", predict_code |-> 0, feedback_id |-> None,
     old_rows |-> 0, persisted |-> FALSE, count |-> 0, exit_code |-> None]

Init ==
    /\ alert_high_latency \in BOOLEAN
    /\ predictions_total = [k \in Results \X {"true", "false"} |-> 0]
    /\ inference_duration = EmptyHistogram
    /\ prediction_confidence = [r \in Results |-> EmptyHistogram]
    /\ cv_user_feedback_total = [f \in FeedbackTypes |-> 0]
    /\ cv_last_inference_seconds = Zero
    /\ cv_avg_inference_seconds = Zero
    /\ cv_inferencetime_ms = Zero
    /\ inference_sum = Zero
    /\ inference_count = 0
    /\ th = [t \in Threads |-> IdleThread]
    /\ calls = 0
    /\ issued = [tit_n |-> 0, tit_total |-> Zero, tit_direct |-> 0,
                 tp_n |-> 0, tp_total |-> Zero]
    /\ faults = FALSE
    /\ probe = ProbeIdle

\* ------------------------------------------------ track_user_feedback
\* Variant: the validity test lets every value through.
valid_types_unchecked == FeedbackTypes

valid_types == {"positive", "negative"}

\* The whole handler: the validity test, the labelled increment (which may
\* raise) and the except clause that swallows the exception.
track_user_feedback(t, feedback_type, fail) ==
    /\ CanCall(t)
    /\ calls' = calls + 1
    /\ LET me == [IdleThread EXCEPT !.pc = "done",
                                    !.op = "track_user_feedback",
                                    !.feedback_type = feedback_type]
       IN IF feedback_type \notin valid_types
          THEN /\ th' = [th EXCEPT ![t] = me]
               /\ UNCHANGED <<cv_user_feedback_total, faults>>
          ELSE IF fail
          THEN /\ th' = [th EXCEPT ![t] = [me EXCEPT !.log =
                        <<Event("fault", <<"cv_user_feedback_total">>, Zero)>>]]
               /\ faults' = TRUE
               /\ UNCHANGED cv_user_feedback_total
          ELSE /\ cv_user_feedback_total' =
                      [cv_user_feedback_total EXCEPT ![feedback_type] = @ + 1]
               /\ th' = [th EXCEPT ![t] = [me EXCEPT !.log =
                        <<Event("cv_user_feedback_total", <<feedback_type>>, Zero)>>]]
               /\ UNCHANGED faults
    /\ UNCHANGED <<alert_high_latency, predictions_total, inference_duration,
                   prediction_confidence, cv_last_inference_seconds,
                   cv_avg_inference_seconds, cv_inferencetime_ms,
                   inference_sum, inference_count, issued, probe>>

\* ---------------------------------------------- update_last_inference
\* alert_high_latency and duration * 1000 > 1000
\* Variant: the threshold test written >= instead of >.
AlertDueAtThreshold(duration) ==
    /\ alert_high_latency
    /\ LET latency == RMulInt(duration, MS_PER_SECOND)
       IN latency.num >= ALERT_THRESHOLD_MS * latency.den

AlertDue(duration) ==
    /\ alert_high_latency
    /\ RGtInt(RMulInt(duration, MS_PER_SECOND), ALERT_THRESHOLD_MS)

CallUpdateLastInference(t, duration) ==
    /\ CanCall(t)
    /\ calls' = calls + 1
    /\ th' = [th EXCEPT ![t] = [IdleThread EXCEPT !.pc = "uli_set_seconds",
                                                  !.op = "update_last_inference",
                                                  !.duration = duration]]
    /\ UNCHANGED <<alert_high_latency, metricVars, issued, faults, probe>>

\* cv_last_inference_seconds.set(duration)
UliSetSeconds(t, fail) ==
    /\ th[t].pc = "uli_set_seconds"
    /\ IF fail
       THEN /\ th' = [th EXCEPT ![t].pc = "done",
                                ![t].log = Logged(t, Event("fault", <<"cv_last_inference_seconds">>, Zero))]
            /\ faults' = TRUE
            /\ UNCHANGED cv_last_inference_seconds
       ELSE /\ cv_last_inference_seconds' = th[t].duration
            /\ th' = [th EXCEPT ![t].pc = "uli_set_ms",
                                ![t].log = Logged(t, Event("cv_last_inference_seconds", <<>>, th[t].duration))]
            /\ UNCHANGED faults
    /\ UNCHANGED <<alert_high_latency, predictions_total, inference_duration,
                   prediction_confidence, cv_user_feedback_total,
                   cv_avg_inference_seconds, cv_inferencetime_ms,
                   inference_sum, inference_count, calls, issued, probe>>

\* cv_inferencetime_ms.set(duration * 1000)
UliSetMs(t, fail) ==
    /\ th[t].pc = "uli_set_ms"
    /\ IF fail
       THEN /\ th' = [th EXCEPT ![t].pc = "done",
                                ![t].log = Logged(t, Event("fault", <<"cv_inferencetime_ms">>, Zero))]
            /\ faults' = TRUE
            /\ UNCHANGED cv_inferencetime_ms
       ELSE /\ cv_inferencetime_ms' = RMulInt(th[t].duration, MS_PER_SECOND)
            /\ th' = [th EXCEPT ![t].pc = "uli_check",
                                ![t].log = Logged(t, Event("cv_inferencetime_ms", <<>>,
                                                  RMulInt(th[t].duration, MS_PER_SECOND)))]
            /\ UNCHANGED faults
    /\ UNCHANGED <<alert_high_latency, predictions_total, inference_duration,
                   prediction_confidence, cv_user_feedback_total,
                   cv_last_inference_seconds, cv_avg_inference_seconds,
                   inference_sum, inference_count, calls, issued, probe>>

\* The threshold test; when it passes, alert_high_latency(duration * 1000,
\* threshold=1000) is entered and the caller is inside that call.
UliCheck(t) ==
    /\ th[t].pc = "uli_check"
    /\ IF AlertDue(th[t].duration)
       THEN th' = [th EXCEPT ![t].pc = "uli_in_sink",
                             ![t].log = Logged(t,
                                 [m |-> "alert_high_latency",
                                  label |-> <<>>,
                                  v |-> RMulInt(th[t].duration, MS_PER_SECOND),
                                  threshold |-> ALERT_THRESHOLD_MS])]
       ELSE th' = [th EXCEPT ![t].pc = "done"]
    /\ UNCHANGED <<alert_high_latency, metricVars, calls, issued, faults, probe>>

\* What the sink does with the call: it returns, it raises (caught by the
\* except clause of update_last_inference), or it never returns.
UliSink(t, outcome) ==
    /\ th[t].pc = "uli_in_sink"
    /\ th' = [th EXCEPT ![t].pc = IF outcome = "hangs" THEN "uli_blocked" ELSE "done",
                        ![t].log = Logged(t, Event("sink", <<outcome>>, Zero))]
    /\ UNCHANGED <<alert_high_latency, metricVars, calls, issued, faults, probe>>

\* Every step thread t can take inside update_last_inference.
UliStep(t) ==
    \/ \E fail \in BOOLEAN : UliSetSeconds(t, fail)
    \/ \E fail \in BOOLEAN : UliSetMs(t, fail)
    \/ UliCheck(t)
    \/ \E outcome \in SinkOutcomes : UliSink(t, outcome)

\* ----------------------------------------------------- track_prediction
\* if result != 'error'
\* Variant: confidence recorded for every result.
RecordsConfidenceAlways(result) == result \in Results

RecordsConfidence(result) == result # "error"

CallTrackPrediction(t, o) ==
    /\ CanCall(t)
    /\ calls' = calls + 1
    /\ th' = [th EXCEPT ![t] = [IdleThread EXCEPT !.pc = "tp_record",
                                                  !.op = "track_prediction",
                                                  !.result = o.result,
                                                  !.ms = o.ms,
                                                  !.confidence = o.confidence,
                                                  !.success = o.success]]
    /\ issued' = [issued EXCEPT !.tp_n = @ + 1,
                                !.tp_total = RAdd(@, Seconds(o.ms))]
    /\ UNCHANGED <<alert_high_latency, metricVars, faults, probe>>

\* predictions_total.labels(result=..., success=...).inc() and
\* inference_duration.observe(inference_time_ms / 1000.0), both outside any
\* try: an exception in either leaves track_prediction.  Then
\* track_inference_time(inference_time_ms / 1000.0) is entered.  (Both
\* metric updates are lock-protected increments nothing here reads back,
\* so the two statements are one step.)
TpRecord(t, failAt) ==
    /\ th[t].pc = "tp_record"
    /\ LET key == <<th[t].result, SuccessLabel(th[t].success)>>
           incEv == Event("predictions_total", key, Zero)
       IN CASE failAt = "predictions_total" ->
                 /\ th' = [th EXCEPT ![t].pc = "done", ![t].raised = TRUE,
                                     ![t].log = Logged(t, Event("fault", <<failAt>>, Zero))]
                 /\ faults' = TRUE
                 /\ UNCHANGED <<predictions_total, inference_duration, issued>>
            [] failAt = "inference_duration" ->
                 /\ predictions_total' = [predictions_total EXCEPT ![key] = @ + 1]
                 /\ th' = [th EXCEPT ![t].pc = "done", ![t].raised = TRUE,
                                     ![t].log = th[t].log \o
                                         <<incEv, Event("fault", <<failAt>>, Zero)>>]
                 /\ faults' = TRUE
                 /\ UNCHANGED <<inference_duration, issued>>
            [] failAt = "none" ->
                 /\ predictions_total' = [predictions_total EXCEPT ![key] = @ + 1]
                 /\ inference_duration' = Observe(inference_duration, Seconds(th[t].ms))
                 /\ th' = [th EXCEPT ![t].pc = "tit_observe",
                                     ![t].duration = Seconds(th[t].ms),
                                     ![t].log = th[t].log \o
                                         <<incEv, Event("inference_duration", <<>>,
                                                        Seconds(th[t].ms))>>]
                 /\ issued' = [issued EXCEPT !.tit_n = @ + 1,
                                             !.tit_total = RAdd(@, Seconds(th[t].ms))]
                 /\ UNCHANGED faults
    /\ UNCHANGED <<alert_high_latency, prediction_confidence,
                   cv_user_feedback_total, cv_last_inference_seconds,
                   cv_avg_inference_seconds, cv_inferencetime_ms,
                   inference_sum, inference_count, calls, probe>>

\* if result != 'error': prediction_confidence.labels(result).observe(confidence),
\* outside any try.
TpConfidence(t, fail) ==
    /\ th[t].pc = "tp_confidence"
    /\ IF ~RecordsConfidence(th[t].result)
       THEN /\ th' = [th EXCEPT ![t].pc = "done"]
            /\ UNCHANGED <<prediction_confidence, faults>>
       ELSE IF fail
       THEN /\ th' = [th EXCEPT ![t].pc = "done", ![t].raised = TRUE,
                                ![t].log = Logged(t, Event("fault", <<"prediction_confidence">>, Zero))]
            /\ faults' = TRUE
            /\ UNCHANGED prediction_confidence
       ELSE /\ prediction_confidence' =
                   [prediction_confidence EXCEPT
                        ![th[t].result] = Observe(@, th[t].confidence)]
            /\ th' = [th EXCEPT ![t].pc = "done",
                                ![t].log = Logged(t, Event("prediction_confidence",
                                    <<th[t].result>>, th[t].confidence))]
            /\ UNCHANGED faults
    /\ UNCHANGED <<alert_high_latency, predictions_total, inference_duration,
                   cv_user_feedback_total, cv_last_inference_seconds,
                   cv_avg_inference_seconds, cv_inferencetime_ms,
                   inference_sum, inference_count, calls, issued, probe>>

\* ------------------------------------------------- track_inference_time
CallTrackInferenceTime(t, duration) ==
    /\ CanCall(t)
    /\ calls' = calls + 1
    /\ th' = [th EXCEPT ![t] = [IdleThread EXCEPT !.pc = "tit_observe",
                                                  !.op = "track_inference_time",
                                                  !.duration = duration]]
    /\ issued' = [issued EXCEPT !.tit_n = @ + 1,
                                !.tit_total = RAdd(@, duration),
                                !.tit_direct = @ + 1]
    /\ UNCHANGED <<alert_high_latency, metricVars, faults, probe>>

\* Where control goes when track_inference_time returns: back into
\* track_prediction (after its try block), or to the direct caller.
TitReturn(t) == IF th[t].op = "track_prediction" THEN "tp_confidence" ELSE "done"

\* inference_duration.observe(duration), the first statement of the try.
TitObserve(t, fail) ==
    /\ th[t].pc = "tit_observe"
    /\ IF fail
       THEN /\ th' = [th EXCEPT ![t].pc = TitReturn(t),
                                ![t].log = Logged(t, Event("fault", <<"tit.inference_duration">>, Zero))]
            /\ faults' = TRUE
            /\ UNCHANGED inference_duration
       ELSE /\ inference_duration' = Observe(inference_duration, th[t].duration)
            /\ th' = [th EXCEPT ![t].pc = "tit_sum_load",
                                ![t].log = Logged(t, Event("inference_duration", <<>>,
                                                           th[t].duration))]
            /\ UNCHANGED faults
    /\ UNCHANGED <<alert_high_latency, predictions_total,
                   prediction_confidence, cv_user_feedback_total,
                   cv_last_inference_seconds, cv_avg_inference_seconds,
                   cv_inferencetime_ms, inference_sum, inference_count,
                   calls, issued, probe>>

\* _inference_sum += duration: the read of the global ...
TitSumLoad(t) ==
    /\ th[t].pc = "tit_sum_load"
    /\ th' = [th EXCEPT ![t].pc = "tit_sum_store", ![t].tmp = inference_sum]
    /\ UNCHANGED <<alert_high_latency, metricVars, calls, issued, faults, probe>>

\* ... and the write of the value read plus duration.
TitSumStore(t) ==
    /\ th[t].pc = "tit_sum_store"
    /\ inference_sum' = RAdd(th[t].tmp, th[t].duration)
    /\ th' = [th EXCEPT ![t].pc = "tit_count_load", ![t].tmp = Zero,
                        ![t].log = Logged(t, Event("_inference_sum", <<>>, th[t].duration))]
    /\ UNCHANGED <<alert_high_latency, predictions_total, inference_duration,
                   prediction_confidence, cv_user_feedback_total,
                   cv_last_inference_seconds, cv_avg_inference_seconds,
                   cv_inferencetime_ms, inference_count, calls, issued,
                   faults, probe>>

\* _inference_count += 1: the read ...
TitCountLoad(t) ==
    /\ th[t].pc = "tit_count_load"
    /\ th' = [th EXCEPT ![t].pc = "tit_count_store",
                        ![t].tmp = Norm(inference_count, 1)]
    /\ UNCHANGED <<alert_high_latency, metricVars, calls, issued, faults, probe>>

\* ... and the write.
TitCountStore(t) ==
    /\ th[t].pc = "tit_count_store"
    /\ inference_count' = th[t].tmp.num + 1
    /\ th' = [th EXCEPT ![t].pc = "tit_avg", ![t].tmp = Zero,
                        ![t].log = Logged(t, Event("_inference_count", <<>>, Norm(1, 1)))]
    /\ UNCHANGED <<alert_high_latency, predictions_total, inference_duration,
                   prediction_confidence, cv_user_feedback_total,
                   cv_last_inference_seconds, cv_avg_inference_seconds,
                   cv_inferencetime_ms, inference_sum, calls, issued,
                   faults, probe>>

\* avg = _inference_sum / _inference_count
TitAvg(t) ==
    /\ th[t].pc = "tit_avg"
    /\ th' = [th EXCEPT ![t].pc = "tit_set",
                        ![t].avg = RDivInt(inference_sum, inference_count)]
    /\ UNCHANGED <<alert_high_latency, metricVars, calls, issued, faults, probe>>

\* cv_avg_inference_seconds.set(avg); an exception is caught by the except
\* clause of track_inference_time.
TitSet(t, fail) ==
    /\ th[t].pc = "tit_set"
    /\ IF fail
       THEN /\ th' = [th EXCEPT ![t].pc = TitReturn(t), ![t].avg = Zero,
                                ![t].log = Logged(t, Event("fault", <<"cv_avg_inference_seconds">>, Zero))]
            /\ faults' = TRUE
            /\ UNCHANGED cv_avg_inference_seconds
       ELSE /\ cv_avg_inference_seconds' = th[t].avg
            /\ th' = [th EXCEPT ![t].pc = TitReturn(t), ![t].avg = Zero,
                                ![t].log = Logged(t, Event("cv_avg_inference_seconds",
                                                           <<>>, th[t].avg))]
            /\ UNCHANGED faults
    /\ UNCHANGED <<alert_high_latency, predictions_total, inference_duration,
                   prediction_confidence, cv_user_feedback_total,
                   cv_last_inference_seconds, cv_inferencetime_ms,
                   inference_sum, inference_count, calls, issued, probe>>

\* --------------------------------------------------------- specifications
\* The three groups of helpers share no state (the feedback counter; the
\* last-observed gauges and the alert sink; the prediction metrics and the
\* running average), so each group is explored on its own.
FeedbackNext ==
    \E t \in Threads, f \in FeedbackTypes, fail \in BOOLEAN :
        track_user_feedback(t, f, fail)

AlertNext ==
    \/ \E t \in Threads, d \in DurationsSeconds : CallUpdateLastInference(t, d)
    \/ \E t \in Threads, fail \in BOOLEAN : UliSetSeconds(t, fail)
    \/ \E t \in Threads, fail \in BOOLEAN : UliSetMs(t, fail)
    \/ \E t \in Threads : UliCheck(t)
    \/ \E t \in Threads, outcome \in SinkOutcomes : UliSink(t, outcome)

TrackerNext ==
    \/ \E t \in Threads, o \in PredictionOutcomes : CallTrackPrediction(t, o)
    \/ \E t \in Threads, failAt \in {"none", "predictions_total", "inference_duration"} :
           TpRecord(t, failAt)
    \/ \E t \in Threads, fail \in BOOLEAN : TpConfidence(t, fail)
    \/ \E t \in Threads, d \in DirectDurations : CallTrackInferenceTime(t, d)
    \/ \E t \in Threads, fail \in BOOLEAN : TitObserve(t, fail)
    \/ \E t \in Threads : TitSumLoad(t)
    \/ \E t \in Threads : TitSumStore(t)
    \/ \E t \in Threads : TitCountLoad(t)
    \/ \E t \in Threads : TitCountStore(t)
    \/ \E t \in Threads : TitAvg(t)
    \/ \E t \in Threads, fail \in BOOLEAN : TitSet(t, fail)

\* ------------------------------------ tests/test_feedback_integration.py
HealthCodes == {200, 503}

HealthStatuses == {"healthy", "degraded", "unhealthy"}

PredictCodes == {200, 500}

FeedbackIds == {None, 7}

\* The except clause of the script: the traceback is printed and the script
\* runs off its end, so the interpreter exits with status 0.
ProbeCaught(p) == [p EXCEPT !.pc = "exited", !.exit_code = 0]

\* if feedback_id and count > 0
ProbeSuccess(feedback_id, count) ==
    /\ feedback_id # None
    /\ feedback_id # 0
    /\ count > 0

\* test_health(): the GET (which raises when the API is unreachable) and
\* the two asserts.
ProbeHealth(reachable, code, status) ==
    /\ probe.pc = "start"
    /\ LET p == [probe EXCEPT !.health_code = IF reachable THEN code ELSE 0,
                              !.health_status = IF reachable THEN status ELSE "none"]
       IN IF reachable /\ code = 200 /\ status \in {"healthy", "degraded"}
          THEN probe' = [p EXCEPT !.pc = "predict", !.health_ok = TRUE]
          ELSE probe' = ProbeCaught(p)
    /\ UNCHANGED <<alert_high_latency, metricVars, th, calls, issued, faults>>

\* test_prediction(): the POST; feedback_id of the JSON body on 200, None
\* otherwise.  old_rows is what storage held before the submission and
\* persisted whether the API stored a row for it.
ProbePredict(code, fid, old_rows, persisted) ==
    /\ probe.pc = "predict"
    /\ persisted => code = 200
    /\ code # 200 => fid = None
    /\ probe' = [probe EXCEPT !.pc = "verify",
                              !.predict_code = code,
                              !.feedback_id = IF code = 200 THEN fid ELSE None,
                              !.old_rows = old_rows,
                              !.persisted = persisted]
    /\ UNCHANGED <<alert_high_latency, metricVars, th, calls, issued, faults>>

\* verify_in_database(): count of all rows (an exception when the session
\* cannot be opened).
ProbeVerify(db_ok) ==
    /\ probe.pc = "verify"
    /\ IF db_ok
       THEN probe' = [probe EXCEPT !.pc = "verdict",
                                   !.count = probe.old_rows +
                                             (IF probe.persisted THEN 1 ELSE 0)]
       ELSE probe' = ProbeCaught(probe)
    /\ UNCHANGED <<alert_high_latency, metricVars, th, calls, issued, faults>>

\* The verdict: sys.exit(1) unless feedback_id and count > 0.
ProbeVerdict ==
    /\ probe.pc = "verdict"
    /\ probe' = [probe EXCEPT !.pc = "exited",
                              !.exit_code =
                                  IF ProbeSuccess(probe.feedback_id, probe.count)
                                  THEN 0 ELSE 1]
    /\ UNCHANGED <<alert_high_latency, metricVars, th, calls, issued, faults>>

ProbeNext ==
    \/ \E reachable \in BOOLEAN, code \in HealthCodes, status \in HealthStatuses :
           ProbeHealth(reachable, code, status)
    \/ \E code \in PredictCodes, fid \in FeedbackIds, old_rows \in 0..MaxOldRows,
          persisted \in BOOLEAN : ProbePredict(code, fid, old_rows, persisted)
    \/ \E db_ok \in BOOLEAN : ProbeVerify(db_ok)
    \/ ProbeVerdict

ProbeSpec == Init /\ [][ProbeNext]_vars

FeedbackSpec == Init /\ [][FeedbackNext]_vars

AlertSpec == Init /\ [][AlertNext]_vars

TrackerSpec == Init /\ [][TrackerNext]_vars

\* ================================================================ claims
NEvents(t, m) ==
    Cardinality({i \in 1..Len(th[t].log) : th[t].log[i].m = m})

FaultAt(t, name) ==
    \E i \in 1..Len(th[t].log) :
        th[t].log[i].m = "fault" /\ th[t].log[i].label = <<name>>

Quiescent == \A t \in Threads : th[t].pc \in {"idle", "done"}

\* Every call made so far is the current or last call of a distinct thread.
AllCallsVisible == calls = Cardinality({t \in Threads : th[t].op # "none"})

\* C1: once all N calls of track_inference_time have completed (any
\* interleaving, no metric call having raised), _inference_count = N,
\* _inference_sum = the total of the N durations and the average gauge
\* holds total / N.
C1_NoLostUpdate ==
    (Quiescent /\ ~faults /\ issued.tit_n > 0) =>
        /\ inference_count = issued.tit_n
        /\ inference_sum = issued.tit_total
        /\ cv_avg_inference_seconds = RDivInt(issued.tit_total, issued.tit_n)

\* C2: a call update_last_inference(d) never raises and invokes the sink
\* at most once; it never invokes it when d*1000 <= 1000 or when no sink
\* is configured; and a returned call with a configured sink, d*1000 > 1000
\* and both gauge writes done has invoked it exactly once, with
\* latency d*1000 and threshold 1000.
C2_AlertContract ==
    \A t \in Threads :
        th[t].op = "update_last_inference" =>
            LET d == th[t].duration
                above == d.num * 1000 > 1000 * d.den
                alerts == {i \in 1..Len(th[t].log) :
                               th[t].log[i].m = "alert_high_latency"}
            IN /\ ~th[t].raised
               /\ Cardinality(alerts) <= 1
               /\ (~above \/ ~alert_high_latency) => alerts = {}
               /\ (th[t].pc = "done" /\ above /\ alert_high_latency
                     /\ NEvents(t, "fault") = 0) =>
                      /\ Cardinality(alerts) = 1
                      /\ \A i \in alerts :
                            /\ th[t].log[i].v = Norm(d.num * 1000, d.den)
                            /\ th[t].log[i].threshold = 1000

\* C2 witness: with a sink configured, a call with d = 1.5 s has returned
\* after one alert and a call with d = 1.0 s (exactly 1000 ms) has returned
\* without one.
C2_Witness ==
    /\ alert_high_latency
    /\ \E t \in Threads :
          /\ th[t].op = "update_last_inference" /\ th[t].pc = "done"
          /\ th[t].duration = Norm(3, 2)
          /\ NEvents(t, "alert_high_latency") = 1
    /\ \E t \in Threads :
          /\ th[t].op = "update_last_inference" /\ th[t].pc = "done"
          /\ th[t].duration = Norm(1, 1)
          /\ NEvents(t, "alert_high_latency") = 0
          /\ cv_inferencetime_ms = Norm(1000, 1)

\* C3: track_prediction never propagates an exception to its caller.
C3_NeverPropagates ==
    \A t \in Threads : th[t].op = "track_prediction" => ~th[t].raised

\* C4: a returned call of track_prediction with inference_time_ms > 1000
\* and a sink configured has invoked the sink exactly once and left its
\* duration in both last-observed gauges.
C4_ReachesAlertDecision ==
    \A t \in Threads :
        (/\ th[t].op = "track_prediction" /\ th[t].pc = "done"
         /\ calls = 1 /\ ~faults
         /\ th[t].ms > 1000 /\ alert_high_latency) =>
            /\ NEvents(t, "alert_high_latency") = 1
            /\ cv_last_inference_seconds = Norm(th[t].ms, 1000)
            /\ cv_inferencetime_ms = Norm(th[t].ms, 1)

\* C5: after K completed calls of track_prediction and no other call (no
\* metric call having raised), the duration histogram has K observations
\* whose sum is the total of the K durations in seconds.
C5_DurationObservedOnce ==
    (Quiescent /\ ~faults /\ issued.tit_direct = 0) =>
        /\ inference_duration.count = issued.tp_n
        /\ inference_duration.sum = issued.tp_total

RECURSIVE ConfidenceTotal(_)
ConfidenceTotal(S) ==
    IF S = {} THEN Zero
    ELSE LET t == CHOOSE x \in S : TRUE
         IN RAdd(th[t].confidence, ConfidenceTotal(S \ {t}))

\* C6: no call ever records into the confidence series labelled error;
\* each confidence series labelled cat or dog holds exactly the confidences
\* of the returned calls with that result; each prediction counter series
\* (result, success) counts the calls with that result and success whose
\* increment did not raise, error included; and every call that went past
\* its own histogram observation is in the duration histogram.
C6_ConfidenceFrame ==
    /\ prediction_confidence["error"] = [count |-> 0, sum |-> [num |-> 0, den |-> 1]]
    /\ AllCallsVisible =>
          LET tp == {t \in Threads : th[t].op = "track_prediction"}
              returned(r) == {t \in tp : /\ th[t].result = r
                                         /\ th[t].pc = "done"
                                         /\ ~th[t].raised}
              counted(r, s) == {t \in tp : /\ th[t].result = r
                                           /\ th[t].success = s
                                           /\ th[t].pc # "tp_record"
                                           /\ ~FaultAt(t, "predictions_total")}
              observed == {t \in tp : /\ th[t].pc # "tp_record"
                                      /\ ~th[t].raised}
          IN /\ \A r \in {"cat", "dog"} :
                   /\ prediction_confidence[r].count = Cardinality(returned(r))
                   /\ prediction_confidence[r].sum = ConfidenceTotal(returned(r))
             /\ \A r \in {"cat", "dog", "error"} :
                   /\ predictions_total[<<r, "true">>] = Cardinality(counted(r, TRUE))
                   /\ predictions_total[<<r, "false">>] = Cardinality(counted(r, FALSE))
             /\ inference_duration.count >= Cardinality(observed)

\* C6 witness: a call with result error and a call with result cat have
\* both returned; the error call is counted and in the duration histogram,
\* the cat call's confidence is in the cat series alone.
C6_Witness ==
    /\ \E t \in Threads :
          /\ th[t].op = "track_prediction" /\ th[t].result = "error"
          /\ th[t].pc = "done" /\ ~th[t].raised
    /\ \E t \in Threads :
          /\ th[t].op = "track_prediction" /\ th[t].result = "cat"
          /\ th[t].pc = "done" /\ ~th[t].raised
    /\ predictions_total[<<"error", "false">>] = 1
    /\ inference_duration.count >= 2
    /\ prediction_confidence["cat"].count = 1
    /\ prediction_confidence["dog"].count = 0

\* C7: when the only call made so far, a call of track_inference_time, has
\* returned, _inference_count is 1 and _inference_sum is its duration,
\* whether or not a publication step raised.
C7_MutateBeforePublish ==
    \A t \in Threads :
        (th[t].op = "track_inference_time" /\ th[t].pc = "done" /\ calls = 1) =>
            /\ inference_count = 1
            /\ inference_sum = th[t].duration

C9_FeedbackFrame ==
    /\ \A t \in Threads : th[t].op = "track_user_feedback" =>
           th[t].pc = "done" /\ ~th[t].raised
    /\ \A f \in FeedbackTypes \ {"positive", "negative"} :
           cv_user_feedback_total[f] = 0
    /\ AllCallsVisible =>
           \A f \in {"positive", "negative"} :
               cv_user_feedback_total[f] =
                   Cardinality({t \in Threads :
                       /\ th[t].op = "track_user_feedback"
                       /\ th[t].feedback_type = f
                       /\ NEvents(t, "fault") = 0})

\* C9 witness: a positive call has incremented the positive series, and a
\* call with an unrecognized type has returned: negative and neutral are 0.
C9_Witness ==
    /\ \E t \in Threads :
          /\ th[t].op = "track_user_feedback" /\ th[t].pc = "done"
          /\ th[t].feedback_type = "positive"
    /\ \E t \in Threads :
          /\ th[t].op = "track_user_feedback" /\ th[t].pc = "done"
          /\ th[t].feedback_type = "neutral"
    /\ cv_user_feedback_total["positive"] = 1
    /\ cv_user_feedback_total["negative"] = 0
    /\ cv_user_feedback_total["neutral"] = 0

\* C10: a caller inside update_last_inference can always take a step of
\* its own towards returning: it never depends on the sink completing.
C10_CallerNeverWaits ==
    \A t \in Threads :
        (th[t].op = "update_last_inference" /\ th[t].pc # "done") =>
            ENABLED UliStep(t)

====
